---- MODULE Spec2Model ----
(***************************************************************************)
(* Model of src/windows/process.c: the Windows backend of the process      *)
(* handle (three pipes, CreateProcessW, wait / terminate / kill, free).    *)
(*                                                                         *)
(* The operating system is modelled by                                     *)
(*   - a handle table (handles) giving the status of every kernel handle   *)
(*     the program can ever hold; a handle value names one kernel object   *)
(*     and is never handed out twice,                                      *)
(*   - the calling thread's last-error register (lastError),               *)
(*   - the child process (child).                                          *)
(* The assertions of the source are enabled: an operation whose assertion  *)
(* fails is rejected, and the rejection aborts the program.                *)
(***************************************************************************)
EXTENDS Integers, FiniteSets, Sequences, TLC

\* ------------------------------------------------------------------------
\* Bounds of the model
\* ------------------------------------------------------------------------

\* largest finite timeout (in clock ticks) passed to wait / terminate / kill
MaxTimeout == 1

\* most calls of process_start a client makes on one handle
MaxStarts == 2

\* ------------------------------------------------------------------------
\* Values
\* ------------------------------------------------------------------------

\* the process structures a client owns; each is driven by its own thread
Procs == {1, 2}

\* the single structure driven under Spec
MainProc == 1

ParentFields == {"stdin", "stdout", "stderr"}

ChildFields == {"child_stdin", "child_stdout", "child_stderr"}

InfoFields == {"hThread", "hProcess"}

HandleFields == ParentFields \cup ChildFields \cup InfoFields

\* typedef struct process: H(p, f) is the handle value the OS hands out
\* for field f of structure p
H(p, f) == <<p, f>>

HandleIds == Procs \X HandleFields

NULL == <<0, "NULL">>

\* the "infinite" sentinel of the wait family
INFINITE == -1

Timeouts == (0 .. MaxTimeout) \cup {INFINITE}

\* platform error codes held by the last-error register
ERROR_SUCCESS == "ERROR_SUCCESS"

ERROR_INVALID_HANDLE == "ERROR_INVALID_HANDLE"

ERROR_ACCESS_DENIED == "ERROR_ACCESS_DENIED"

ERROR_PIPE == "ERROR_TOO_MANY_OPEN_FILES"

ERROR_CREATE == "ERROR_FILE_NOT_FOUND"

ERROR_SIGNAL == "ERROR_INVALID_PARAMETER"

ERROR_IO == "ERROR_BROKEN_PIPE"

\* results of the operations
PROCESS_SUCCESS == "PROCESS_SUCCESS"

PROCESS_WAIT_TIMEOUT == "PROCESS_WAIT_TIMEOUT"

\* an assertion of the operation failed: the call is rejected
Rejected == "Rejected"

VARIABLES
  process,     \* process[p]: the fields of struct process
  handles,     \* OS handle table: HandleIds -> "none" | "open" | "closed"
  lastError,   \* lastError[p]: last-error register of the thread driving p
  child,       \* child[p]: the child process created for p
  pc,          \* pc[p]: "idle", or "waiting" inside WaitForSingleObject
  waitOp,      \* waitOp[p]: the operation that is blocked in process_wait
  waitLeft,    \* waitLeft[p]: ticks left of the blocked wait, or INFINITE
  state,       \* state[p]: lifecycle state of the handle
  lastOp,      \* lastOp[p]: the operation that returned last on p
  lastResult,  \* lastResult[p]: what it returned
  lastArg,     \* lastArg[p]: the timeout it was called with (wait family)
  lastState,   \* lastState[p]: the lifecycle state it was called in
  calls,       \* calls[p]: calls made so far of process_start on p
  misuse,      \* misuse[p]: the OS calls the last operation on p issued on
               \* a handle that is not open
  oslog,       \* oslog[p]: the OS calls the last operation on p issued, in
               \* order: <<api, handle, whether the call succeeded>>
  aborted      \* an assertion failed

vars == <<process, handles, lastError, child, pc, waitOp, waitLeft, state,
          lastOp, lastResult, lastArg, lastState, calls, misuse, oslog,
          aborted>>

\* ------------------------------------------------------------------------
\* The operating system
\* ------------------------------------------------------------------------

\* h is an open handle of the handle table hs
IsOpen(hs, h) == h \in HandleIds /\ hs[h] = "open"

\* the OS as one thread sees it during an operation: the handle table, the
\* thread's last-error register, and the calls on dead handles and all the
\* calls made so far
OsOf(p) ==
  [handles |-> handles, err |-> lastError[p], misuse |-> {}, log |-> <<>>]

SetLastError(os, code) == [os EXCEPT !.err = code]

\* Cleared without the SetLastError(0): the operation starts with the last
\* error the earlier operations left
Uncleared(p) == OsOf(p)

\* the OS at the start of an operation of p, after its SetLastError(0)
Cleared(p) == SetLastError(OsOf(p), ERROR_SUCCESS)

\* OS call api on handle h is issued, and succeeds or not
Logged(os, api, h, ok) == [os EXCEPT !.log = Append(@, <<api, h, ok>>)]

\* a failing OS call api on handle h: the call fails with code; a call on a
\* handle that is not open is recorded
Fail(os, api, h, code) ==
  [os EXCEPT !.err = code,
             !.misuse = IF IsOpen(os.handles, h) THEN @ ELSE @ \cup {<<api, h>>},
             !.log = Append(@, <<api, h, FALSE>>)]

\* CloseHandle succeeds on an open handle and closes it; on NULL or on a
\* closed handle it fails with ERROR_INVALID_HANDLE.  Success leaves the
\* last-error register alone.
CloseHandle(os, h) ==
  IF IsOpen(os.handles, h)
  THEN Logged([os EXCEPT !.handles[h] = "closed"], "CloseHandle", h, TRUE)
  ELSE Fail(os, "CloseHandle", h, ERROR_INVALID_HANDLE)

\* pipe_init(read, write, do_not_inherit): one anonymous pipe, both ends
\* created, or a platform error and no end created
pipe_init(os, p, parentField, childField, ok) ==
  IF ok
  THEN Logged([os EXCEPT !.handles[H(p, parentField)] = "open",
                         !.handles[H(p, childField)] = "open"],
              "CreatePipe", H(p, parentField), TRUE)
  ELSE Logged(SetLastError(os, ERROR_PIPE),
              "CreatePipe", H(p, parentField), FALSE)

\* the portable kind of a platform error code
system_error_to_process_error(code) ==
  CASE code = ERROR_SUCCESS -> PROCESS_SUCCESS
    [] code = ERROR_PIPE -> "PipeCreationFailed"
    [] code = ERROR_CREATE -> "ProcessCreationFailed"
    [] code = ERROR_INVALID_HANDLE -> "InvalidHandle"
    [] code = ERROR_IO -> "IOFailed"
    [] OTHER -> "Unknown"

\* the programs a child can run: whether it ignores CTRL-BREAK, and whether
\* it keeps running until it is made to exit
ChildKinds == [ignoresBreak : BOOLEAN, longRunning : BOOLEAN]

\* the two ways the parent acts on a child
CTRL_BREAK == "CTRL_BREAK_EVENT"

KILL == "TerminateProcess"

\* a child: its status, its program, and the signals that reached it while
\* it was running, in the order of their first arrival
NoChild ==
  [status |-> "none", ignoresBreak |-> FALSE, longRunning |-> FALSE,
   signals |-> <<>>]

NewChild(kind) ==
  [status |-> "running", ignoresBreak |-> kind.ignoresBreak,
   longRunning |-> kind.longRunning, signals |-> <<>>]

Got(c, sig) == \E i \in DOMAIN c.signals : c.signals[i] = sig

\* sig reaches child c
Deliver(c, sig) ==
  IF c.status # "running" \/ Got(c, sig) THEN c
  ELSE [c EXCEPT !.signals = Append(@, sig)]

Running(p) == child[p].status = "running"

Exited(p) == child[p].status = "exited"

\* ------------------------------------------------------------------------
\* Shared pieces of the operations
\* ------------------------------------------------------------------------

EmptyProcess ==
  [stdin |-> NULL, stdout |-> NULL, stderr |-> NULL,
   child_stdin |-> NULL, child_stdout |-> NULL, child_stderr |-> NULL,
   hThread |-> NULL, hProcess |-> NULL, dwProcessId |-> 0]

\* the client may call an operation on p: the program runs, p's thread is
\* not blocked, and process_init has filled the structure
CanCall(p) == ~aborted /\ pc[p] = "idle" /\ state[p] # "Uninit"

\* operation op, called with timeout arg (0 when it takes none), returns
\* result on p
Return(p, op, arg, result) ==
  /\ lastOp' = [lastOp EXCEPT ![p] = op]
  /\ lastArg' = [lastArg EXCEPT ![p] = arg]
  /\ lastResult' = [lastResult EXCEPT ![p] = result]
  /\ lastState' = [lastState EXCEPT ![p] = state[p]]

\* an assertion of operation op fails: the call is rejected before it
\* touches anything, and the program aborts
Reject(p, op) ==
  /\ Return(p, op, 0, Rejected)
  /\ aborted' = TRUE
  /\ misuse' = [misuse EXCEPT ![p] = {}]
  /\ oslog' = [oslog EXCEPT ![p] = <<>>]
  /\ UNCHANGED <<process, handles, lastError, pc, waitOp, waitLeft, state>>

\* the operation leaves os behind
Commit(p, os) ==
  /\ handles' = os.handles
  /\ lastError' = [lastError EXCEPT ![p] = os.err]
  /\ misuse' = [misuse EXCEPT ![p] = os.misuse]
  /\ oslog' = [oslog EXCEPT ![p] = os.log]

\* ------------------------------------------------------------------------
\* process_init
\* ------------------------------------------------------------------------

\* InitPipes with the three pipe_init calls made whatever the earlier ones
\* returned
InitPipesAll(os, p, failing) ==
  pipe_init(
    pipe_init(
      pipe_init(os, p, "stdin", "child_stdin", failing # 1),
      p, "stdout", "child_stdout", failing # 2),
    p, "stderr", "child_stderr", failing # 3)

\* the three pipe_init calls joined by &&: pipe number failing fails (0: none
\* does), and no pipe after it is created
InitPipes(os, p, failing) ==
  LET os1 == pipe_init(os, p, "stdin", "child_stdin", failing # 1)
      os2 == IF failing = 1 THEN os1
             ELSE pipe_init(os1, p, "stdout", "child_stdout", failing # 2)
      os3 == IF failing \in {1, 2} THEN os2
             ELSE pipe_init(os2, p, "stderr", "child_stderr", failing # 3)
  IN os3

\* InitFields with the read end of the stderr pipe stored over stdout's
InitFieldsAliased(os, p) ==
  [f \in DOMAIN EmptyProcess |->
     IF f \in ParentFields \cup ChildFields /\ IsOpen(os.handles, H(p, f))
     THEN (IF f = "stderr" THEN H(p, "stdout") ELSE H(p, f))
     ELSE EmptyProcess[f]]

\* the fields of the structure after the pipes: a field names its handle
\* when the pipe of the field was created
InitFields(os, p) ==
  [f \in DOMAIN EmptyProcess |->
     IF f \in ParentFields \cup ChildFields /\ IsOpen(os.handles, H(p, f))
     THEN H(p, f) ELSE EmptyProcess[f]]

process_init(p) ==
  /\ ~aborted
  /\ pc[p] = "idle"
  /\ state[p] = "Uninit"
  /\ \E failing \in 0 .. 3 :
       LET os == InitPipes(Cleared(p), p, failing)
       IN /\ process' = [process EXCEPT ![p] = InitFields(os, p)]
          /\ Commit(p, os)
          /\ Return(p, "init", 0, system_error_to_process_error(os.err))
  /\ state' = [state EXCEPT ![p] = "Created"]
  /\ UNCHANGED <<child, pc, waitOp, waitLeft, calls, aborted>>

\* ------------------------------------------------------------------------
\* process_start
\* ------------------------------------------------------------------------

\* the argument vectors a client passes: argc, whether argv is a non-null
\* pointer, whether argv[0 .. argc-1] are all non-null, and whether
\* argv[argc] is non-null
Argvs == [argc : 0 .. 1, argv : BOOLEAN, elems : BOOLEAN, last : BOOLEAN]

\* the assertions of process_start
StartAsserts(p, a) ==
  /\ a.argc > 0
  /\ a.argv
  /\ a.last
  /\ \A f \in ParentFields \cup ChildFields : process[p][f] # NULL
  /\ process[p].hThread = NULL
  /\ process[p].hProcess = NULL
  /\ a.elems

\* CreateProcessW with the child ends as the standard handles of the child:
\* on success the process and main-thread handles and the process id are
\* stored in info, on failure info is left as it was
CreateProcessW(os, p, ok) ==
  LET dead == {f \in ChildFields : ~IsOpen(os.handles, process[p][f])}
      os1 == [os EXCEPT !.misuse =
                @ \cup {<<"CreateProcessW", process[p][f]>> : f \in dead}]
  IN IF ok
     THEN Logged([os1 EXCEPT !.handles[H(p, "hThread")] = "open",
                             !.handles[H(p, "hProcess")] = "open"],
                 "CreateProcessW", H(p, "hProcess"), TRUE)
     ELSE Logged(SetLastError(os1, ERROR_CREATE),
                 "CreateProcessW", H(p, "hProcess"), FALSE)

StartInfo(p, ok) ==
  IF ok
  THEN [process[p] EXCEPT !.hThread = H(p, "hThread"),
                          !.hProcess = H(p, "hProcess"),
                          !.dwProcessId = p]
  ELSE process[p]

\* StartCloses without the close of the child end of stderr
StartClosesLeakStderr(os, pr) ==
  CloseHandle(
    CloseHandle(
      CloseHandle(os, pr.child_stdin),
      pr.child_stdout),
    pr.hThread)

\* the four CloseHandle calls that follow CreateProcessW
StartCloses(os, pr) ==
  CloseHandle(
    CloseHandle(
      CloseHandle(
        CloseHandle(os, pr.child_stdin),
        pr.child_stdout),
      pr.child_stderr),
    pr.hThread)

\* StartResult with the priority inverted: an error of the CloseHandle calls
\* replaces the error of CreateProcessW
StartResultCloseFirst(error, err) ==
  IF system_error_to_process_error(err) # PROCESS_SUCCESS
  THEN system_error_to_process_error(err)
  ELSE error

\* the result of process_start: the error of CreateProcessW has priority
\* over the last error left by the CloseHandle calls
StartResult(error, err) ==
  IF error # PROCESS_SUCCESS THEN error
  ELSE system_error_to_process_error(err)

process_start(p) ==
  /\ CanCall(p)
  /\ calls[p] < MaxStarts
  /\ calls' = [calls EXCEPT ![p] = @ + 1]
  /\ \E a \in Argvs :
       IF ~StartAsserts(p, a)
       THEN Reject(p, "start") /\ UNCHANGED child
       ELSE \E ok \in BOOLEAN, kind \in ChildKinds :
              LET os1 == CreateProcessW(Cleared(p), p, ok)
                  pr == StartInfo(p, ok)
                  error == system_error_to_process_error(os1.err)
                  os2 == StartCloses(os1, pr)
                  result == StartResult(error, os2.err)
              IN /\ process' = [process EXCEPT ![p] = pr]
                 /\ Commit(p, os2)
                 /\ child' = IF ok THEN [child EXCEPT ![p] = NewChild(kind)]
                             ELSE child
                 /\ state' = IF ok /\ state[p] = "Created"
                             THEN [state EXCEPT ![p] = "Started"]
                             ELSE state
                 /\ Return(p, "start", 0, result)
                 /\ UNCHANGED <<pc, waitOp, waitLeft, aborted>>

\* ------------------------------------------------------------------------
\* process_write_stdin, process_read_stdout, process_read_stderr
\* ------------------------------------------------------------------------

\* pipe_write / pipe_read on handle h: WriteFile / ReadFile fails on a handle
\* that is not open, and succeeds or fails (broken pipe) on an open one
PipeIO(os, api, h, ok) ==
  IF ~IsOpen(os.handles, h) THEN Fail(os, api, h, ERROR_INVALID_HANDLE)
  ELSE IF ok THEN Logged(SetLastError(os, ERROR_SUCCESS), api, h, TRUE)
  ELSE Fail(os, api, h, ERROR_IO)

\* the assertions of the three I/O operations on the parent end field
IOAsserts(p, field, buffer) == process[p][field] # NULL /\ buffer

ProcessIO(p, op, api, field) ==
  /\ CanCall(p)
  /\ UNCHANGED calls
  /\ \E buffer \in BOOLEAN :
       IF ~IOAsserts(p, field, buffer)
       THEN Reject(p, op) /\ UNCHANGED child
       ELSE \E ok \in BOOLEAN :
              LET os == PipeIO(OsOf(p), api, process[p][field], ok)
              IN /\ Commit(p, os)
                 /\ Return(p, op, 0, system_error_to_process_error(os.err))
                 /\ UNCHANGED <<process, child, pc, waitOp, waitLeft, state,
                                aborted>>

process_write_stdin(p) == ProcessIO(p, "write", "WriteFile", "stdin")

process_read_stdout(p) == ProcessIO(p, "read_stdout", "ReadFile", "stdout")

\* process_read_stderr reading from the stdout field
process_read_stderr_stdout(p) ==
  ProcessIO(p, "read_stderr", "ReadFile", "stdout")

process_read_stderr(p) == ProcessIO(p, "read_stderr", "ReadFile", "stderr")

\* ------------------------------------------------------------------------
\* process_wait, process_terminate, process_kill
\* ------------------------------------------------------------------------

\* WaitForSingleObject(hProcess, milliseconds) at the moment of the call:
\* WAIT_FAILED on a handle that is not open, WAIT_OBJECT_0 when the process
\* has exited, WAIT_TIMEOUT when it runs and milliseconds is 0; otherwise the
\* thread blocks
WaitForSingleObject(os, p, milliseconds) ==
  IF ~IsOpen(os.handles, process[p].hProcess) THEN "WAIT_FAILED"
  ELSE IF child[p].status = "exited" THEN "WAIT_OBJECT_0"
  ELSE IF milliseconds = 0 THEN "WAIT_TIMEOUT"
  ELSE "blocks"

\* WaitResult without the case WAIT_TIMEOUT
WaitResultNoTimeout(wait_result, err) ==
  CASE wait_result = "WAIT_FAILED" -> system_error_to_process_error(err)
    [] OTHER -> PROCESS_SUCCESS

\* the switch of process_wait on the result of WaitForSingleObject, err
\* being the last error
WaitResult(wait_result, err) ==
  CASE wait_result = "WAIT_TIMEOUT" -> PROCESS_WAIT_TIMEOUT
    [] wait_result = "WAIT_FAILED" -> system_error_to_process_error(err)
    [] OTHER -> PROCESS_SUCCESS

\* process_wait as called by operation op (wait itself, or terminate / kill
\* after their signal) on the OS state os0: the assertion, SetLastError(0),
\* WaitForSingleObject and the switch on its result
WaitBody(p, op, milliseconds, os0) ==
  LET cleared == SetLastError(os0, ERROR_SUCCESS)
      wait_result == WaitForSingleObject(cleared, p, milliseconds)
      os == IF wait_result = "WAIT_FAILED"
            THEN Fail(cleared, "WaitForSingleObject", process[p].hProcess,
                      ERROR_INVALID_HANDLE)
            ELSE Logged(cleared, "WaitForSingleObject",
                        process[p].hProcess, TRUE)
  IN CASE process[p].hProcess = NULL ->
            /\ Commit(p, os0)
            /\ Return(p, op, milliseconds, Rejected)
            /\ aborted' = TRUE
            /\ UNCHANGED <<pc, waitOp, waitLeft>>
       [] process[p].hProcess # NULL /\ wait_result # "blocks" ->
            /\ Commit(p, os)
            /\ Return(p, op, milliseconds, WaitResult(wait_result, os.err))
            /\ UNCHANGED <<pc, waitOp, waitLeft, aborted>>
       [] process[p].hProcess # NULL /\ wait_result = "blocks" ->
            /\ Commit(p, os)
            /\ pc' = [pc EXCEPT ![p] = "waiting"]
            /\ waitOp' = [waitOp EXCEPT ![p] = op]
            /\ waitLeft' = [waitLeft EXCEPT ![p] = milliseconds]
            /\ lastArg' = [lastArg EXCEPT ![p] = milliseconds]
            /\ UNCHANGED <<lastOp, lastResult, lastState, aborted>>

process_wait(p) ==
  /\ CanCall(p)
  /\ \E milliseconds \in Timeouts :
       WaitBody(p, "wait", milliseconds, OsOf(p))
  /\ UNCHANGED <<process, child, state, calls>>

\* the blocked WaitForSingleObject of p returns: WAIT_OBJECT_0 once the
\* process has exited, WAIT_TIMEOUT once the timeout has elapsed
WaitReturn(p) ==
  /\ ~aborted
  /\ pc[p] = "waiting"
  /\ \/ /\ child[p].status = "exited"
        /\ Return(p, waitOp[p], lastArg[p],
                  WaitResult("WAIT_OBJECT_0", lastError[p]))
     \/ /\ child[p].status # "exited"
        /\ waitLeft[p] = 0
        /\ Return(p, waitOp[p], lastArg[p],
                  WaitResult("WAIT_TIMEOUT", lastError[p]))
  /\ pc' = [pc EXCEPT ![p] = "idle"]
  /\ UNCHANGED <<process, handles, lastError, child, waitOp, waitLeft, state,
                 calls, misuse, oslog, aborted>>

\* a clock tick passes while p is blocked in a wait with a finite timeout
Tick(p) ==
  /\ ~aborted
  /\ pc[p] = "waiting"
  /\ waitLeft[p] > 0
  /\ waitLeft' = [waitLeft EXCEPT ![p] = @ - 1]
  /\ UNCHANGED <<process, handles, lastError, child, pc, waitOp, state,
                 lastOp, lastResult, lastArg, lastState, calls, misuse,
                 oslog, aborted>>

\* GenerateConsoleCtrlEvent when the children are created without
\* CREATE_NEW_PROCESS_GROUP: they all share the console group of the parent
GenerateConsoleCtrlEventShared(group) ==
  [q \in Procs |-> Deliver(child[q], CTRL_BREAK)]

\* GenerateConsoleCtrlEvent(CTRL_BREAK_EVENT, group): the event reaches the
\* running processes of the group, which holds the one child created with
\* that process id
GenerateConsoleCtrlEvent(group) ==
  [q \in Procs |->
     IF process[q].dwProcessId = group THEN Deliver(child[q], CTRL_BREAK)
     ELSE child[q]]

\* TerminateSignal followed by TerminateProcess on the child of p
TerminateSignalThenKill(p) ==
  [q \in Procs |->
     IF q = p
     THEN Deliver(GenerateConsoleCtrlEvent(process[p].dwProcessId)[q], KILL)
     ELSE GenerateConsoleCtrlEvent(process[p].dwProcessId)[q]]

\* the signal of process_terminate: CTRL-BREAK to the group named by the
\* process id of p
TerminateSignal(p) == GenerateConsoleCtrlEvent(process[p].dwProcessId)

\* the OS after GenerateConsoleCtrlEvent has returned, delivered or failed
CtrlEventCall(os, delivered) ==
  IF delivered THEN Logged(os, "GenerateConsoleCtrlEvent", NULL, TRUE)
  ELSE Logged(SetLastError(os, ERROR_SIGNAL),
              "GenerateConsoleCtrlEvent", NULL, FALSE)

\* TerminateFailed with the return value of GenerateConsoleCtrlEvent ignored
TerminateFailedIgnored(delivered) == FALSE

\* the test of process_terminate on the return value of
\* GenerateConsoleCtrlEvent
TerminateFailed(delivered) == ~delivered

process_terminate(p) ==
  /\ CanCall(p)
  /\ IF process[p].dwProcessId = 0
     THEN /\ Reject(p, "terminate")
          /\ UNCHANGED child
     ELSE \E milliseconds \in Timeouts, delivered \in BOOLEAN :
            LET os == CtrlEventCall(Cleared(p), delivered)
            IN /\ child' = IF delivered THEN TerminateSignal(p) ELSE child
               /\ IF TerminateFailed(delivered)
                  THEN /\ Commit(p, os)
                       /\ Return(p, "terminate", milliseconds,
                                 system_error_to_process_error(os.err))
                       /\ UNCHANGED <<pc, waitOp, waitLeft, aborted>>
                  ELSE WaitBody(p, "terminate", milliseconds, os)
  /\ UNCHANGED <<process, state, calls>>

\* TerminateProcess(hProcess, 0): fails on a handle that is not open and,
\* with ERROR_ACCESS_DENIED, on a process that has already exited; otherwise
\* the process is made to exit, which it cannot prevent, and the call
\* returns without waiting for the exit
TerminateProcess(os, p) ==
  IF ~IsOpen(os.handles, process[p].hProcess)
  THEN Fail(os, "TerminateProcess", process[p].hProcess, ERROR_INVALID_HANDLE)
  ELSE IF child[p].status # "running"
  THEN Fail(os, "TerminateProcess", process[p].hProcess, ERROR_ACCESS_DENIED)
  ELSE Logged(os, "TerminateProcess", process[p].hProcess, TRUE)

\* the children after TerminateProcess on the process handle of p returned
\* leaving os
Terminated(os, p) ==
  IF os.err = ERROR_SUCCESS THEN [child EXCEPT ![p] = Deliver(@, KILL)]
  ELSE child

\* KillFailed with the test inverted
KillFailedInverted(os) == os.err = ERROR_SUCCESS

\* the test of process_kill on the return value of TerminateProcess
KillFailed(os) == os.err # ERROR_SUCCESS

process_kill(p) ==
  /\ CanCall(p)
  /\ IF process[p].hProcess = NULL
     THEN /\ Reject(p, "kill")
          /\ UNCHANGED child
     ELSE \E milliseconds \in Timeouts :
            LET os == TerminateProcess(Cleared(p), p)
            IN /\ child' = Terminated(os, p)
               /\ IF KillFailed(os)
                  THEN /\ Commit(p, os)
                       /\ Return(p, "kill", milliseconds,
                                 system_error_to_process_error(os.err))
                       /\ UNCHANGED <<pc, waitOp, waitLeft, aborted>>
                  ELSE WaitBody(p, "kill", milliseconds, os)
  /\ UNCHANGED <<process, state, calls>>

\* ------------------------------------------------------------------------
\* process_free
\* ------------------------------------------------------------------------

\* CloseIfSet without the NULL check
CloseAlways(os, pr, f) == CloseHandle(os, pr[f])

\* CloseHandle on field f of the structure if the field is not NULL
CloseIfSet(os, pr, f) == IF pr[f] # NULL THEN CloseHandle(os, pr[f]) ELSE os

\* the NULL-checked CloseHandle calls of process_free
FreeCloses(os, pr) ==
  CloseIfSet(
    CloseIfSet(
      CloseIfSet(
        CloseIfSet(os, pr, "stdin"),
        pr, "stdout"),
      pr, "stderr"),
    pr, "hProcess")

process_free(p) ==
  /\ CanCall(p)
  /\ LET os == FreeCloses(Cleared(p), process[p])
     IN /\ Commit(p, os)
        /\ Return(p, "free", 0, system_error_to_process_error(os.err))
  /\ state' = [state EXCEPT ![p] = "Released"]
  /\ UNCHANGED <<process, child, pc, waitOp, waitLeft, calls, aborted>>

\* ------------------------------------------------------------------------
\* The child process
\* ------------------------------------------------------------------------

\* the child of p exits: on its own when it is not long-running, on a
\* CTRL-BREAK it does not ignore, or after TerminateProcess
ChildExit(p) ==
  /\ ~aborted
  /\ child[p].status = "running"
  /\ \/ ~child[p].longRunning
     \/ Got(child[p], CTRL_BREAK) /\ ~child[p].ignoresBreak
     \/ Got(child[p], KILL)
  /\ child' = [child EXCEPT ![p].status = "exited"]
  /\ UNCHANGED <<process, handles, lastError, pc, waitOp, waitLeft, state,
                 lastOp, lastResult, lastArg, lastState, calls, misuse,
                 oslog, aborted>>

\* ------------------------------------------------------------------------
\* Specifications
\* ------------------------------------------------------------------------

Init ==
  /\ process = [p \in Procs |-> EmptyProcess]
  /\ handles = [h \in HandleIds |-> "none"]
  /\ lastError = [p \in Procs |-> ERROR_SUCCESS]
  /\ child = [p \in Procs |-> NoChild]
  /\ pc = [p \in Procs |-> "idle"]
  /\ waitOp = [p \in Procs |-> "none"]
  /\ waitLeft = [p \in Procs |-> 0]
  /\ state = [p \in Procs |-> "Uninit"]
  /\ lastOp = [p \in Procs |-> "none"]
  /\ lastResult = [p \in Procs |-> "none"]
  /\ lastArg = [p \in Procs |-> 0]
  /\ lastState = [p \in Procs |-> "Uninit"]
  /\ calls = [p \in Procs |-> 0]
  /\ misuse = [p \in Procs |-> {}]
  /\ oslog = [p \in Procs |-> <<>>]
  /\ aborted = FALSE

\* the steps of the thread that drives p, and of p's child
Step(p) ==
  \/ process_init(p)
  \/ process_start(p)
  \/ process_write_stdin(p)
  \/ process_read_stdout(p)
  \/ process_read_stderr(p)
  \/ process_wait(p)
  \/ process_terminate(p)
  \/ process_kill(p)
  \/ process_free(p)
  \/ WaitReturn(p)
  \/ Tick(p)
  \/ ChildExit(p)

\* one handle, driven by one thread
Next == Step(MainProc)

Spec == Init /\ [][Next]_vars

\* struct process after a successful process_init and process_start
StartedProcess(p) ==
  [f \in DOMAIN EmptyProcess |-> IF f = "dwProcessId" THEN p ELSE H(p, f)]

\* the OS calls of a successful process_start
StartedLog(p) ==
  <<<<"CreateProcessW", H(p, "hProcess"), TRUE>>,
    <<"CloseHandle", H(p, "child_stdin"), TRUE>>,
    <<"CloseHandle", H(p, "child_stdout"), TRUE>>,
    <<"CloseHandle", H(p, "child_stderr"), TRUE>>,
    <<"CloseHandle", H(p, "hThread"), TRUE>>>>

\* p is as a successful process_init followed by a successful
\* process_start leave it
StartedFresh(p) ==
  /\ process[p] = StartedProcess(p)
  /\ \A f \in HandleFields :
       handles[H(p, f)] =
         IF f \in ParentFields \cup {"hProcess"} THEN "open" ELSE "closed"
  /\ lastError[p] = ERROR_SUCCESS
  /\ child[p] \in {NewChild(kind) : kind \in ChildKinds}
  /\ pc[p] = "idle" /\ waitOp[p] = "none" /\ waitLeft[p] = 0
  /\ state[p] = "Started" /\ lastState[p] = "Created"
  /\ lastOp[p] = "start" /\ lastResult[p] = PROCESS_SUCCESS
  /\ lastArg[p] = 0 /\ calls[p] = 1
  /\ misuse[p] = {} /\ oslog[p] = StartedLog(p)

\* two handles, both initialised and started, each child running any program
InitTwo ==
  /\ process = [p \in Procs |-> StartedProcess(p)]
  /\ handles =
       [h \in HandleIds |->
          IF h[2] \in ParentFields \cup {"hProcess"} THEN "open" ELSE "closed"]
  /\ lastError = [p \in Procs |-> ERROR_SUCCESS]
  /\ child \in [Procs -> {NewChild(kind) : kind \in ChildKinds}]
  /\ pc = [p \in Procs |-> "idle"]
  /\ waitOp = [p \in Procs |-> "none"]
  /\ waitLeft = [p \in Procs |-> 0]
  /\ state = [p \in Procs |-> "Started"]
  /\ lastOp = [p \in Procs |-> "start"]
  /\ lastResult = [p \in Procs |-> PROCESS_SUCCESS]
  /\ lastArg = [p \in Procs |-> 0]
  /\ lastState = [p \in Procs |-> "Created"]
  /\ calls = [p \in Procs |-> 1]
  /\ misuse = [p \in Procs |-> {}]
  /\ oslog = [p \in Procs |-> StartedLog(p)]
  /\ aborted = FALSE

\* the steps on a started handle p: its thread calls process_terminate,
\* then process_kill (or process_kill at once), then process_wait any number
\* of times, and p's child runs
StepTwo(p) ==
  \/ lastOp[p] = "start" /\ process_terminate(p)
  \/ lastOp[p] \in {"start", "terminate"} /\ process_kill(p)
  \/ lastOp[p] = "kill" /\ process_wait(p)
  \/ WaitReturn(p)
  \/ Tick(p)
  \/ ChildExit(p)

\* two started handles, each driven by its own thread, in any interleaving
NextTwo == \E p \in Procs : StepTwo(p)

SpecTwo == InitTwo /\ [][NextTwo]_vars

\* ------------------------------------------------------------------------
\* Properties
\* ------------------------------------------------------------------------

\* the last operation on p issued CloseHandle on a handle that had already
\* been closed
ClosedTwice(p) ==
  \E m \in misuse[p] :
    m[1] = "CloseHandle" /\ m[2] \in HandleIds /\ handles[m[2]] = "closed"

\* a handle created for p is still open
Leaks(p) == \E f \in HandleFields : handles[H(p, f)] = "open"

IOOps == {"write", "read_stdout", "read_stderr"}

\* C1: once process_start has returned from a call that passed its
\* assertions, whether CreateProcessW succeeded or failed, the three
\* child-side endpoints child_stdin, child_stdout and child_stderr are
\* closed in the parent.
C1_ChildEndsClosedAfterStart ==
  \A p \in Procs :
    (lastOp[p] = "start" /\ lastResult[p] # Rejected)
      => \A f \in ChildFields : handles[H(p, f)] = "closed"

\* process_start has returned after CreateProcessW failed, and the child
\* ends are closed
C1_Witness ==
  /\ lastOp[MainProc] = "start"
  /\ lastResult[MainProc] = "ProcessCreationFailed"
  /\ calls[MainProc] = 1
  /\ \A f \in ChildFields : handles[H(MainProc, f)] = "closed"

\* C2: in a lifecycle init, at most one start, free (init failing at any
\* pipe, start failing at process creation), once process_free has returned
\* every handle that was created is closed, and none was closed twice.
C2_EveryHandleClosedOnce ==
  \A p \in Procs :
    (lastOp[p] = "free" /\ lastState[p] # "Released" /\ calls[p] <= 1)
      => ~Leaks(p) /\ ~ClosedTwice(p)

\* C3: process_free is idempotent: called on a handle that only completed
\* init, or called again on a handle that was already released, it closes no
\* handle a second time, and the second call reports no error.
C3_FreeIdempotent ==
  \A p \in Procs :
    lastOp[p] = "free"
      => /\ ~ClosedTwice(p)
         /\ lastState[p] = "Released" => lastResult[p] = PROCESS_SUCCESS

\* C4: after a first call of process_start on a handle, whether it created
\* the process or not, a second call on the same handle is rejected.
C4_SecondStartRejected ==
  \A p \in Procs :
    (lastOp[p] = "start" /\ calls[p] >= 2) => lastResult[p] = Rejected

\* C5: in every state of an initialised handle the process id and the
\* process handle are set if and only if the handle is Started.
C5_ProcessSetIffStarted ==
  \A p \in Procs :
    state[p] # "Uninit"
      => ((process[p].hProcess # NULL /\ process[p].dwProcessId # 0)
            <=> state[p] = "Started")

\* C6: after process_free has returned, a call of write, read, wait,
\* terminate or kill on the handle is rejected; it issues no OS call on a
\* closed handle.
C6_RejectedAfterFree ==
  \A p \in Procs :
    (lastState[p] = "Released"
       /\ lastOp[p] \in IOOps \cup {"wait", "terminate", "kill"})
      => lastResult[p] = Rejected /\ misuse[p] = {}

\* C7: write, read-stdout and read-stderr are accepted only on a Started
\* handle: on a handle that completed init and on which no start has
\* succeeded they are rejected.
C7_IOOnlyWhenStarted ==
  \A p \in Procs :
    (lastOp[p] \in IOOps /\ lastState[p] = "Created")
      => lastResult[p] = Rejected

\* process_wait returns on p in this step
WaitReturns(p) ==
  \/ process_wait(p) /\ pc'[p] = "idle"
  \/ WaitReturn(p) /\ waitOp[p] = "wait"

\* process_terminate returns on p in this step
TerminateReturns(p) ==
  \/ process_terminate(p) /\ pc'[p] = "idle"
  \/ WaitReturn(p) /\ waitOp[p] = "terminate"

\* process_kill returns on p in this step
KillReturns(p) ==
  \/ process_kill(p) /\ pc'[p] = "idle"
  \/ WaitReturn(p) /\ waitOp[p] = "kill"

\* C8: process_wait on a Started handle returns PROCESS_SUCCESS only if the
\* child has exited and PROCESS_WAIT_TIMEOUT only if the timeout has elapsed
\* with the child still running; wait(0) on a running child returns
\* PROCESS_WAIT_TIMEOUT without blocking; and no step of process_wait
\* changes the child.
C8_WaitReportsChild ==
  [][\A p \in Procs :
       /\ (process_wait(p) \/ WaitReturns(p)) => child' = child
       /\ (WaitReturns(p) /\ state[p] = "Started")
            => /\ lastResult'[p] = PROCESS_SUCCESS
                    => child'[p].status = "exited"
               /\ lastResult'[p] = PROCESS_WAIT_TIMEOUT
                    => /\ child'[p].status = "running"
                       /\ lastArg'[p] # INFINITE
                       /\ lastArg'[p] = 0 \/ (pc[p] = "waiting" /\ waitLeft[p] = 0)
       /\ (process_wait(p) /\ state[p] = "Started" /\ Running(p)
             /\ lastArg'[p] = 0)
            => /\ pc'[p] = "idle"
               /\ lastOp'[p] = "wait"
               /\ lastResult'[p] = PROCESS_WAIT_TIMEOUT]_vars

\* wait(0) has returned PROCESS_WAIT_TIMEOUT on a Started handle whose child
\* is running
C8_Witness ==
  /\ lastOp[MainProc] = "wait"
  /\ lastArg[MainProc] = 0
  /\ lastResult[MainProc] = PROCESS_WAIT_TIMEOUT
  /\ state[MainProc] = "Started"
  /\ Running(MainProc)
  /\ pc[MainProc] = "idle"

\* C9: process_terminate never forces the child to exit: no step of it
\* invokes TerminateProcess, and when GenerateConsoleCtrlEvent succeeded and
\* the CTRL-BREAK reached a long-running child that ignores it, terminate
\* with a finite timeout returns PROCESS_WAIT_TIMEOUT and the child is still
\* running when it returns.
C9_TerminateNotEscalated ==
  [][\A p \in Procs :
       /\ (process_terminate(p) \/ TerminateReturns(p))
            => \A q \in Procs : Got(child'[q], KILL) = Got(child[q], KILL)
       /\ (TerminateReturns(p) /\ state[p] = "Started"
             /\ child[p].ignoresBreak /\ child[p].longRunning
             /\ ~Got(child[p], KILL) /\ Got(child'[p], CTRL_BREAK)
             /\ lastError'[p] # ERROR_SIGNAL /\ lastArg'[p] # INFINITE)
            => /\ lastResult'[p] = PROCESS_WAIT_TIMEOUT
               /\ child'[p].status = "running"]_vars

\* terminate with the timeout of one tick has returned PROCESS_WAIT_TIMEOUT
\* on a child that ignores the CTRL-BREAK it got, and the child runs
C9_Witness ==
  /\ lastOp[MainProc] = "terminate"
  /\ lastArg[MainProc] = 1
  /\ lastResult[MainProc] = PROCESS_WAIT_TIMEOUT
  /\ pc[MainProc] = "idle"
  /\ child[MainProc].ignoresBreak
  /\ child[MainProc].signals = <<CTRL_BREAK>>
  /\ Running(MainProc)

\* terminate, then kill, have acted on a child of p that ignores CTRL-BREAK
BreakThenKill(c) == c.ignoresBreak /\ c.signals = <<CTRL_BREAK, KILL>>

C11_KillAlwaysAvailable ==
  \A p \in Procs :
    (lastOp[p] = "kill" /\ pc[p] = "idle" /\ lastState[p] = "Started")
      => /\ lastResult[p] \in {PROCESS_SUCCESS, PROCESS_WAIT_TIMEOUT}
         /\ lastArg[p] = INFINITE
              => lastResult[p] = PROCESS_SUCCESS /\ Exited(p)

\* C12: with two handles both Started, under any interleaving, no step of
\* process_terminate or process_kill on one handle changes the child of the
\* other handle, its endpoint fields, its process reference or the handles
\* they name; a long-running child whose own handle sent it no signal keeps
\* running.
C12_TwoHandlesIsolated ==
  [][\A p \in Procs :
       (process_terminate(p) \/ process_kill(p) \/ WaitReturn(p))
         => \A q \in Procs \ {p} :
              /\ child'[q] = child[q]
              /\ process'[q] = process[q]
              /\ \A f \in HandleFields : handles'[H(q, f)] = handles[H(q, f)]
              /\ (child[q].longRunning /\ child[q].signals = <<>>)
                   => Running(q)']_vars

C12_Witness ==
  /\ StartedFresh(2)
  /\ child[2].longRunning /\ ~child[2].ignoresBreak
  /\ Exited(1)
  /\ Got(child[1], CTRL_BREAK) /\ Got(child[1], KILL)
  /\ lastOp[1] = "kill" /\ lastResult[1] = PROCESS_SUCCESS

\* the pipes the last operation on p created, by the parent field of each
PipesCreated(p) ==
  {f \in ParentFields :
     \E i \in DOMAIN oslog[p] : oslog[p][i] = <<"CreatePipe", H(p, f), TRUE>>}

\* the endpoint values held by the six endpoint fields of p
Endpoints(p) == {process[p][f] : f \in ParentFields \cup ChildFields}

\* C13: process_init returns PROCESS_SUCCESS exactly when all three pipes
\* were created, and after a successful process_init the six endpoint fields
\* hold six open handles, all non-null and pairwise distinct.
C13_InitSuccessIffThreePipes ==
  \A p \in Procs :
    lastOp[p] = "init"
      => /\ lastResult[p] = PROCESS_SUCCESS <=> PipesCreated(p) = ParentFields
         /\ lastResult[p] = PROCESS_SUCCESS
              => /\ NULL \notin Endpoints(p)
                 /\ Cardinality(Endpoints(p)) = 6
                 /\ \A h \in Endpoints(p) : IsOpen(handles, h)
                 /\ Cardinality({h \in HandleIds : h[1] = p
                                                     /\ handles[h] # "none"}) = 6

C13_Witness ==
  /\ lastOp[MainProc] = "init"
  /\ lastResult[MainProc] = PROCESS_SUCCESS
  /\ Cardinality(Endpoints(MainProc)) = 6

\* the handles the last operation on p called api on
Touched(p, api) ==
  {oslog[p][i][2] : i \in {j \in DOMAIN oslog[p] : oslog[p][j][1] = api}}

\* the OS calls of the last operation on p that failed
FailedCalls(p) ==
  {oslog[p][i] : i \in {j \in DOMAIN oslog[p] : ~oslog[p][j][3]}}

\* C14: the first process_free on a handle, in any state reached by
\* process_init and process_start (failed or not), returns PROCESS_SUCCESS:
\* it issues CloseHandle only on the fields that are set, whose handles are
\* open, none of its closes fails, and a field that was never set makes it
\* report nothing.
C14_FirstFreeSucceeds ==
  \A p \in Procs :
    (lastOp[p] = "free" /\ lastState[p] # "Released")
      => /\ lastResult[p] = PROCESS_SUCCESS
         /\ FailedCalls(p) = {}
         /\ misuse[p] = {}
         /\ Touched(p, "CloseHandle") =
              {process[p][f] : f \in ParentFields \cup {"hProcess"}} \ {NULL}
         /\ \A i \in DOMAIN oslog[p] : oslog[p][i][1] = "CloseHandle"

C14_Witness ==
  /\ lastOp[MainProc] = "free"
  /\ lastState[MainProc] = "Created"
  /\ lastResult[MainProc] = PROCESS_SUCCESS
  /\ process[MainProc].stdin # NULL
  /\ process[MainProc].stderr = NULL

\* the pipes of process_init in the order of their creation: the parent
\* field and the child field of each
PipeOrder ==
  <<<<"stdin", "child_stdin">>, <<"stdout", "child_stdout">>,
    <<"stderr", "child_stderr">>>>

\* the k-th pipe creation of the last operation on p failed
PipeFailed(p, k) ==
  /\ k \in DOMAIN oslog[p]
  /\ oslog[p][k] = <<"CreatePipe", H(p, PipeOrder[k][1]), FALSE>>

\* an endpoint field of p is NULL: process_init failed on p
InitFailed(p) ==
  state[p] # "Uninit"
    /\ \E f \in ParentFields \cup ChildFields : process[p][f] = NULL

\* C15: when the k-th pipe creation of process_init fails, process_init
\* returns an error and makes no later pipe_init call, the endpoint fields
\* of pipes k .. 3 are NULL with no handle created for them, the earlier
\* pipes keep their open endpoints and info is unset; from then on no child
\* exists, and a process_start is rejected without any OS call.
C15_FailedInitThenStartRejected ==
  \A p \in Procs :
    /\ \A k \in 1 .. 3 :
         (lastOp[p] = "init" /\ PipeFailed(p, k))
           => /\ lastResult[p] = "PipeCreationFailed"
              /\ Len(oslog[p]) = k
              /\ \A j \in k .. 3 : \A i \in 1 .. 2 :
                   /\ process[p][PipeOrder[j][i]] = NULL
                   /\ handles[H(p, PipeOrder[j][i])] = "none"
              /\ \A j \in 1 .. (k - 1) : \A i \in 1 .. 2 :
                   /\ process[p][PipeOrder[j][i]] = H(p, PipeOrder[j][i])
                   /\ handles[H(p, PipeOrder[j][i])] = "open"
              /\ InitFailed(p)
    /\ (lastOp[p] = "init" /\ lastResult[p] # PROCESS_SUCCESS)
         => \E k \in 1 .. 3 : PipeFailed(p, k)
    /\ InitFailed(p)
         => /\ process[p].hProcess = NULL
            /\ process[p].hThread = NULL
            /\ process[p].dwProcessId = 0
            /\ child[p] = NoChild
            /\ state[p] # "Started"
            /\ lastOp[p] = "start"
                 => lastResult[p] = Rejected /\ oslog[p] = <<>>

C15_Witness ==
  /\ lastOp[MainProc] = "start"
  /\ lastResult[MainProc] = Rejected
  /\ process[MainProc].stdout # NULL
  /\ process[MainProc].stderr = NULL

\* the last operation on p called CreateProcessW and it succeeded
ProcessCreated(p) ==
  \E i \in DOMAIN oslog[p] :
    oslog[p][i] = <<"CreateProcessW", H(p, "hProcess"), TRUE>>

\* the CloseHandle calls of the last operation on p that failed
FailedCloses(p) == {c \in FailedCalls(p) : c[1] = "CloseHandle"}

\* C16: an accepted process_start whose CreateProcessW failed returns the
\* translated creation error whether its CloseHandle calls failed or not, and
\* an accepted process_start returns PROCESS_SUCCESS exactly when
\* CreateProcessW succeeded and none of its CloseHandle calls failed.
C16_StartResult ==
  \A p \in Procs :
    (lastOp[p] = "start" /\ pc[p] = "idle" /\ lastResult[p] # Rejected)
      => /\ ~ProcessCreated(p) => lastResult[p] = "ProcessCreationFailed"
         /\ lastResult[p] = PROCESS_SUCCESS
              <=> (ProcessCreated(p) /\ FailedCloses(p) = {})
         /\ Len(oslog[p]) = 5

C16_Witness ==
  /\ lastOp[MainProc] = "start"
  /\ lastResult[MainProc] = "ProcessCreationFailed"
  /\ <<"CloseHandle", H(MainProc, "child_stdin"), FALSE>>
       \in FailedCloses(MainProc)

\* the positions of the log of the last operation on p where CloseHandle is
\* called on handle h
ClosesOf(p, h) ==
  {i \in DOMAIN oslog[p] :
     oslog[p][i][1] = "CloseHandle" /\ oslog[p][i][2] = h}

\* C17: an accepted process_start calls CloseHandle on the main-thread
\* reference exactly once when CreateProcessW succeeded and not at all when
\* it failed, and it never calls CloseHandle on a reference that was never
\* opened (NULL, or a handle the OS never created).
C17_ThreadRefClosedOnlyOnSuccess ==
  \A p \in Procs :
    (lastOp[p] = "start" /\ pc[p] = "idle" /\ lastResult[p] # Rejected)
      => /\ ProcessCreated(p)
              => Cardinality(ClosesOf(p, H(p, "hThread"))) = 1
         /\ ~ProcessCreated(p)
              => \A i \in DOMAIN oslog[p] :
                   oslog[p][i][1] = "CloseHandle"
                     => oslog[p][i][2] \in
                          {H(p, f) : f \in ChildFields}
         /\ \A h \in Touched(p, "CloseHandle") :
              h # NULL /\ handles[h] # "none"

\* the operations that report the last error of their own OS calls
ErrorOps == {"init", "start", "wait", "terminate", "kill", "free"}

\* C18: whatever last error the earlier operations left, an accepted
\* process_init, process_start, process_wait, process_terminate,
\* process_kill or process_free none of whose own OS calls failed returns
\* PROCESS_SUCCESS, or PROCESS_WAIT_TIMEOUT for the wait family.
C18_NoStaleError ==
  \A p \in Procs :
    (/\ lastOp[p] \in ErrorOps
     /\ pc[p] = "idle"
     /\ lastResult[p] # Rejected
     /\ FailedCalls(p) = {})
      => \/ lastResult[p] = PROCESS_SUCCESS
         \/ /\ lastResult[p] = PROCESS_WAIT_TIMEOUT
            /\ lastOp[p] \in {"wait", "terminate", "kill"}

\* process_free returned PROCESS_SUCCESS right after a process_init that
\* failed at its first pipe and left its error in the last-error register
C18_Witness ==
  /\ lastOp[MainProc] = "free"
  /\ lastState[MainProc] = "Created"
  /\ lastResult[MainProc] = PROCESS_SUCCESS
  /\ process[MainProc].stdin = NULL
  /\ oslog[MainProc] = <<>>

\* the handles the last operation on p passed to the OS
AllTouched(p) == {oslog[p][i][2] : i \in DOMAIN oslog[p]}

\* the step is an accepted call of I/O operation op on p, and the only
\* handle it passes to the OS is the one in field
IOTouchesOnly(p, field) ==
  lastResult'[p] # Rejected => AllTouched(p)' = {process[p][field]}

SignalApi(op) ==
  IF op = "terminate" THEN "GenerateConsoleCtrlEvent" ELSE "TerminateProcess"

\* the positions of the log of the last operation on p where api is called
CallsOf(p, api) == {i \in DOMAIN oslog[p] : oslog[p][i][1] = api}

\* the last operation on p delivered its signal with its first OS call and
\* then called WaitForSingleObject on the process handle, and nothing else
SignalThenWait(p, op) ==
  /\ Len(oslog[p]) = 2
  /\ oslog[p][1][1] = SignalApi(op) /\ oslog[p][1][3]
  /\ oslog[p][2][1] = "WaitForSingleObject"
  /\ oslog[p][2][2] = process[p].hProcess

\* C20: an accepted process_terminate or process_kill calls its signal
\* delivery exactly once; when the delivery fails it makes no other OS call,
\* does not wait and returns the translated error of the delivery; when the
\* delivery succeeds it calls WaitForSingleObject once with its timeout and
\* returns what process_wait returns: PROCESS_SUCCESS only with the child
\* exited, PROCESS_WAIT_TIMEOUT only for a finite timeout, the translated
\* error when the wait failed.
C20_SignalOnceNoRetry ==
  \A p \in Procs :
    /\ (lastOp[p] \in {"terminate", "kill"} /\ pc[p] = "idle"
           /\ lastResult[p] # Rejected)
         => /\ Cardinality(CallsOf(p, SignalApi(lastOp[p]))) = 1
            /\ ~oslog[p][1][3]
                 => /\ oslog[p][1][1] = SignalApi(lastOp[p])
                    /\ Len(oslog[p]) = 1
                    /\ lastResult[p] \notin
                         {PROCESS_SUCCESS, PROCESS_WAIT_TIMEOUT}
            /\ oslog[p][1][3]
                 => /\ SignalThenWait(p, lastOp[p])
                    /\ lastResult[p] = PROCESS_SUCCESS
                         => oslog[p][2][3] /\ child[p].status # "running"
                    /\ lastResult[p] = PROCESS_WAIT_TIMEOUT
                         => oslog[p][2][3] /\ lastArg[p] # INFINITE
                    /\ ~oslog[p][2][3] => lastResult[p] = "InvalidHandle"
    /\ (pc[p] = "waiting" /\ waitOp[p] \in {"terminate", "kill"})
         => SignalThenWait(p, waitOp[p]) /\ oslog[p][2][3]

C20_Witness ==
  /\ lastOp[MainProc] = "terminate"
  /\ pc[MainProc] = "idle"
  /\ lastArg[MainProc] = INFINITE
  /\ Running(MainProc)
  /\ oslog[MainProc] = <<<<"GenerateConsoleCtrlEvent", NULL, FALSE>>>>
  /\ lastResult[MainProc] = "Unknown"

====
